---- MODULE Spec2Model ----
(***************************************************************************)
(* A model of tool_v1.2.py, the interactive Packer template generator:     *)
(* the OS prompt, the package inventory scan and its three parsers, the    *)
(* provisioning-method prompt, the provisioning-tool installer with its    *)
(* retry loop and its polled child process, and the two file generators.   *)
(*                                                                         *)
(* Text is modelled as a sequence of one-character strings, so that the    *)
(* Python string methods the program uses (strip, lower, split,            *)
(* splitlines, startswith) are computed rather than assumed.               *)
(***************************************************************************)
EXTENDS Integers, Sequences, FiniteSets

VARIABLES
    pc,               \* position of the program
    entry,            \* the function the run entered at: "main", or a function called directly
    stdin,            \* the line input() returned in the step just taken, and the prompt it answered
    os_choice,        \* main: os_choice
    package_manager,  \* main: package_manager
    output,           \* get_installed_packages: output (stdout of the listing command, stripped)
    packages,         \* main: packages
    provision_method, \* prompt_provision_method: method / main: provision_method
    tool,             \* install_provisioning_tool: tool
    attempt,          \* install_provisioning_tool: attempt
    child,            \* the process Popen started: "none", "running" or "exited"
    child_todo,       \* units of output the child has still to write before it exits
    child_rc,         \* the exit status the child ends with
    pipe,             \* units of child output sitting unread in the pipe
    pbar_n,           \* run_command_with_spinner: pbar.n
    ipt_result,       \* what install_provisioning_tool returned: "none", "True" or "False"
    artifact,         \* the file generate_install_script wrote and what it was rendered from
    template,         \* the provisioner blocks of template.pkr.hcl as written
    events,           \* everything the run did to the outside, in order
    exit_code         \* "running", or the status the process ended with

vars == <<pc, entry, stdin, os_choice, package_manager, output, packages,
          provision_method, tool, attempt, child, child_todo, child_rc, pipe,
          pbar_n, ipt_result, artifact, template, events, exit_code>>

----------------------------------------------------------------------------
(* Bounds of the model.                                                    *)

\* Longest line a user types at a prompt.
MaxInputLen == 2
\* Longest listing output considered in a run of main.
MaxScanLen == 2
\* Longest listing output considered when get_installed_packages is called directly.
MaxOutLen == 6
\* Most units of output an install command writes before it exits.
MaxOutputUnits == 3
\* Units of output the pipe between child and parent holds.
PipeCapacity == 2
\* Value at which the model stops counting pbar.update(1) calls.
MaxTicks == 2

(* Program constants.                                                      *)
max_retries == 3

----------------------------------------------------------------------------
(* Text.                                                                   *)

NL == "\n"
Whitespace == {" ", NL}

InputChars == {"1", "2", "3", "y", "Y", "n", " "}
OutputChars == {"i", ".", " ", NL}

RECURSIVE SeqsUpTo(_, _)
\* All sequences over S of length at most n.
SeqsUpTo(S, n) ==
    IF n = 0 THEN {<<>>}
    ELSE LET shorter == SeqsUpTo(S, n - 1)
         IN  shorter \cup {Append(s, c) : s \in {t \in shorter : Len(t) = n - 1}, c \in S}

InputLines == SeqsUpTo(InputChars, MaxInputLen)

Tail0(s, i) == SubSeq(s, i, Len(s))

RECURSIVE LStrip(_)
LStrip(s) == IF s # <<>> /\ Head(s) \in Whitespace THEN LStrip(Tail(s)) ELSE s

RECURSIVE RStrip(_)
RStrip(s) ==
    IF s # <<>> /\ s[Len(s)] \in Whitespace THEN RStrip(SubSeq(s, 1, Len(s) - 1)) ELSE s

\* str.strip()
Strip(s) == RStrip(LStrip(s))

LowerChar(c) == IF c = "Y" THEN "y" ELSE c

\* str.lower()
Lower(s) == [i \in 1..Len(s) |-> LowerChar(s[i])]

\* Index of the first character of s that is in seps, 0 when there is none.
FirstIn(s, seps) ==
    IF \E i \in 1..Len(s) : s[i] \in seps
    THEN CHOOSE i \in 1..Len(s) : s[i] \in seps /\ \A j \in 1..(i - 1) : s[j] \notin seps
    ELSE 0

RECURSIVE SplitOn(_, _)
\* str.split(sep) for a one-character separator: the pieces between separators, empty ones kept.
SplitOn(s, seps) ==
    LET i == FirstIn(s, seps)
    IN  IF i = 0 THEN <<s>>
        ELSE <<SubSeq(s, 1, i - 1)>> \o SplitOn(Tail0(s, i + 1), seps)

\* str.splitlines(): a final line break ends the last line and starts no new one.
SplitLines(s) ==
    LET pieces == SplitOn(s, {NL})
    IN  IF pieces[Len(pieces)] = <<>> THEN SubSeq(pieces, 1, Len(pieces) - 1) ELSE pieces

\* str.split() without arguments: the runs of non-whitespace.
SplitFields(s) == SelectSeq(SplitOn(s, Whitespace), LAMBDA p : p # <<>>)

\* str.startswith(prefix)
StartsWith(s, prefix) == Len(s) >= Len(prefix) /\ SubSeq(s, 1, Len(prefix)) = prefix

----------------------------------------------------------------------------
(* The pure mappings of the program.                                       *)

ii == <<"i", "i">>
y == <<"y">>

\* OsOf with the fallback on the wrong branch: only 1 and 2 are recognised.
OsOfDefaultLast(choice) ==
    IF choice = <<"1">> THEN "ubuntu"
    ELSE IF choice = <<"2">> THEN "centos"
    ELSE "arch"

\* prompt_operating_system, from the stripped choice to the OS.
OsOf(choice) ==
    IF choice = <<"2">> THEN "centos"
    ELSE IF choice = <<"3">> THEN "arch"
    ELSE "ubuntu"

get_package_manager(os) ==
    IF os \in {"debian", "ubuntu"} THEN "apt"
    ELSE IF os = "centos" THEN "yum"
    ELSE IF os = "arch" THEN "pacman"
    ELSE "apt"

\* prompt_provision_method, from the stripped choice to the method.
MethodOf(choice) ==
    IF choice = <<"2">> THEN "ansible"
    ELSE IF choice = <<"3">> THEN "puppet"
    ELSE "shell"

\* The command whose presence stands for the tool's.
ToolCommand(t) == IF t = "ansible" THEN "ansible-playbook" ELSE t

\* install_commands.get(package_manager, {}).get(tool); <<>> stands for None.
InstallCommand(pm, t) ==
    IF pm = "apt" /\ t \in {"ansible", "puppet"} THEN <<"sudo", "apt-get", "install", "-y", t>>
    ELSE IF pm = "yum" /\ t \in {"ansible", "puppet"} THEN <<"sudo", "yum", "install", "-y", t>>
    ELSE IF pm = "pacman" /\ t \in {"ansible", "puppet"}
         THEN <<"sudo", "pacman", "-S", "--noconfirm", t>>
    ELSE <<>>

\* The listing command of a package manager.
ListingCommand(pm) ==
    IF pm = "apt" THEN <<"dpkg", "-l">>
    ELSE IF pm = "yum" THEN <<"yum", "list", "installed">>
    ELSE <<"pacman", "-Q">>

SupportedManagers == {"apt", "yum", "pacman"}

\* The name taken from the first field of a yum listing line.
YumPackageName(field) == SplitOn(field, {"."})[1]

AptPackages(lines) ==
    LET kept == SelectSeq(lines, LAMBDA l : StartsWith(l, ii) /\ Len(SplitFields(l)) >= 2)
    IN  [k \in 1..Len(kept) |-> SplitFields(kept[k])[2]]

YumPackages(lines) ==
    LET kept == SelectSeq(Tail0(lines, 2), LAMBDA l : SplitFields(l) # <<>>)
    IN  [k \in 1..Len(kept) |-> YumPackageName(SplitFields(kept[k])[1])]

PacmanPackages(lines) ==
    LET kept == SelectSeq(lines, LAMBDA l : SplitFields(l) # <<>>)
    IN  [k \in 1..Len(kept) |-> SplitFields(kept[k])[1]]

\* get_installed_packages, from the listing command's output to the package list.
ParsePackages(pm, out) ==
    IF pm = "apt" THEN AptPackages(SplitLines(out))
    ELSE IF pm = "yum" THEN YumPackages(SplitLines(out))
    ELSE PacmanPackages(SplitLines(out))

\* The file generate_install_script writes for a method; "" when it writes none.
GeneratedFile(method) ==
    IF method = "shell" THEN "install_packages.sh"
    ELSE IF method = "ansible" THEN "playbook.yml"
    ELSE IF method = "puppet" THEN "manifest.pp"
    ELSE ""

\* ProvisionerBlocks without the branch for puppet.
ProvisionerBlocksNoPuppet(method) ==
    IF method = "shell"
    THEN <<[type |-> "shell", key |-> "script", ref |-> "install_packages.sh"]>>
    ELSE IF method = "ansible"
    THEN <<[type |-> "ansible-local", key |-> "playbook_file", ref |-> "playbook.yml"]>>
    ELSE <<>>

\* The provisioner blocks generate_packer_template appends for a method.
ProvisionerBlocks(method) ==
    IF method = "shell"
    THEN <<[type |-> "shell", key |-> "script", ref |-> "install_packages.sh"]>>
    ELSE IF method = "ansible"
    THEN <<[type |-> "ansible-local", key |-> "playbook_file", ref |-> "playbook.yml"]>>
    ELSE IF method = "puppet"
    THEN <<[type |-> "shell", key |-> "inline", ref |-> "manifest.pp"]>>
    ELSE <<>>

\* CommandFailed with the exit status ignored.
CommandFailedNever(rc) == FALSE

\* run_command_with_spinner line 47: the status that is raised as an exception.
CommandFailed(rc) == rc # "0"

\* Declined taking only an explicit n as a refusal.
DeclinedOnlyOnN(choice) == choice = <<"n">>

\* install_provisioning_tool line 134: the answer that stops the run.
Declined(choice) == choice # y

\* MayAttempt off by one.
MayAttemptOffByOne(n) == n <= max_retries

\* install_provisioning_tool line 140: the loop goes on.
MayAttempt(n) == n < max_retries

\* install_provisioning_tool line 150: a retry is offered after a failed attempt.
OffersRetry(n) == n < max_retries

----------------------------------------------------------------------------
(* What the run does to the outside: one record per log line, print,       *)
(* line read, process started or ended, PATH lookup, file written.         *)

Ev(k, w, v) == [kind |-> k, what |-> w, val |-> v]
LogInfo(msg) == Ev("log", "INFO", msg)
LogError(msg) == Ev("log", "ERROR", msg)
Console(msg) == Ev("print", "stdout", msg)
Bool(b) == IF b THEN "True" ELSE "False"
YesNo(choice) == IF choice = y THEN "y" ELSE "other"

NoInput == [prompt |-> "none", line |-> <<>>]

\* check_tool_installed: the PATH lookup and its log line.
CheckTool(t, present) ==
    << Ev("which", ToolCommand(t), Bool(present)),
       LogInfo("Checking if tool is installed") >>

Indices(kind) == {k \in 1..Len(events) : events[k].kind = kind}
Max(S) == CHOOSE m \in S : \A n \in S : n <= m

----------------------------------------------------------------------------
(* Initial states.                                                         *)

NoArtifact == [file |-> "", manager |-> "", packages |-> <<>>]

Fresh ==
    /\ stdin = NoInput
    /\ os_choice = ""
    /\ output = <<>>
    /\ packages = <<>>
    /\ provision_method = ""
    /\ tool = ""
    /\ attempt = 0
    /\ child = "none"
    /\ child_todo = 0
    /\ child_rc = "0"
    /\ pipe = 0
    /\ pbar_n = 0
    /\ ipt_result = "none"
    /\ artifact = NoArtifact
    /\ template = <<>>
    /\ events = <<>>
    /\ exit_code = "running"

\* The process is started: main() is about to run.
Init ==
    /\ pc = "start"
    /\ entry = "main"
    /\ package_manager = ""
    /\ Fresh

\* The identities a caller may hand to a function: the supported ones and one that is not.
Identities == SupportedManagers \cup {"zypper"}

\* get_installed_packages(package_manager) called directly.
InitScan ==
    /\ pc = "get_installed_packages"
    /\ entry = "get_installed_packages"
    /\ package_manager \in Identities
    /\ Fresh

\* prompt_provision_method(package_manager) called directly.
InitMethod ==
    /\ pc = "prompt_provision_method"
    /\ entry = "prompt_provision_method"
    /\ package_manager \in Identities
    /\ Fresh

InitCall == Init \/ InitScan \/ InitMethod

----------------------------------------------------------------------------
(* The steps of the program.                                               *)

\* sys.exit(code), or the interpreter ending the process, after the events evs.
Exit(code, evs) ==
    /\ pc' = "exited"
    /\ exit_code' = code
    /\ events' = events \o evs \o <<Ev("exit", "process", code)>>

ListingOutputs == SeqsUpTo(OutputChars, IF entry = "main" THEN MaxScanLen ELSE MaxOutLen)

\* main, lines 284-285.
Start ==
    /\ pc = "start"
    /\ pc' = "prompt_operating_system"
    /\ events' = events \o <<Console("=== Packer Template Generator ==="),
                             LogInfo("Starting Packer Template Generator")>>
    /\ stdin' = NoInput
    /\ UNCHANGED <<entry, os_choice, package_manager, output, packages, provision_method,
                   tool, attempt, child, child_todo, child_rc, pipe, pbar_n, ipt_result,
                   artifact, template, exit_code>>

\* prompt_operating_system.
PromptOperatingSystem ==
    /\ pc = "prompt_operating_system"
    /\ \E line \in InputLines :
         LET choice == Strip(line)
         IN  /\ stdin' = [prompt |-> "os", line |-> line]
             /\ os_choice' = OsOf(choice)
             /\ events' = events \o <<Console("Select your operating system:"),
                                      Console("1: Debian/Ubuntu"),
                                      Console("2: CentOS/RHEL/Rocky"),
                                      Console("3: Arch Linux"),
                                      Ev("input", "os", OsOf(choice))>>
    /\ pc' = "select_manager"
    /\ UNCHANGED <<entry, package_manager, output, packages, provision_method, tool, attempt,
                   child, child_todo, child_rc, pipe, pbar_n, ipt_result, artifact, template,
                   exit_code>>

\* main, lines 289-297, with get_package_manager.
SelectManager ==
    /\ pc = "select_manager"
    /\ package_manager' = get_package_manager(os_choice)
    /\ events' = events \o <<LogInfo("Selected OS"),
                             LogInfo("Using package manager"),
                             Console("Scanning for installed packages..."),
                             LogInfo("Scanning for installed packages...")>>
    /\ pc' = "get_installed_packages"
    /\ stdin' = NoInput
    /\ UNCHANGED <<entry, os_choice, output, packages, provision_method, tool, attempt,
                   child, child_todo, child_rc, pipe, pbar_n, ipt_result, artifact, template,
                   exit_code>>

\* get_installed_packages with run_command, and main's lines 299-303 on its return.
\* The listing command is missing (subprocess.run raises FileNotFoundError, which nothing
\* catches), exits non-zero, or exits 0 having written some text.
GetInstalledPackages ==
    /\ pc = "get_installed_packages"
    /\ stdin' = NoInput
    /\ IF package_manager \notin SupportedManagers
       THEN /\ Exit("1", <<LogError("Unsupported package manager.")>>)
            /\ UNCHANGED <<output, packages>>
       ELSE LET cmd == ListingCommand(package_manager)
            IN  \E outcome \in {"missing", "1", "0"} :
                  IF outcome = "missing"
                  THEN /\ Exit("1", <<LogInfo("Running command"),
                                      Ev("run", cmd[1], "missing"),
                                      Ev("print", "stderr", "Traceback")>>)
                       /\ UNCHANGED <<output, packages>>
                  ELSE IF outcome = "1"
                  THEN /\ Exit("1", <<LogInfo("Running command"),
                                      Ev("run", cmd[1], "1"),
                                      LogError("Error running command")>>)
                       /\ UNCHANGED <<output, packages>>
                  ELSE \E stdout \in ListingOutputs :
                         /\ output' = Strip(stdout)
                         /\ packages' = ParsePackages(package_manager, Strip(stdout))
                         /\ exit_code' = exit_code
                         /\ IF entry = "main"
                            THEN /\ pc' = "prompt_provision_method"
                                 /\ events' = events \o
                                      <<LogInfo("Running command"),
                                        Ev("run", cmd[1], "0"),
                                        LogInfo("Command output"),
                                        Console("Found installed packages."),
                                        LogInfo("Found installed packages."),
                                        Console("Skipping system configuration scan...")>>
                            ELSE /\ pc' = "returned"
                                 /\ events' = events \o
                                      <<LogInfo("Running command"),
                                        Ev("run", cmd[1], "0"),
                                        LogInfo("Command output")>>
    /\ UNCHANGED <<entry, os_choice, package_manager, provision_method, tool, attempt, child,
                   child_todo, child_rc, pipe, pbar_n, ipt_result, artifact, template>>

\* prompt_provision_method, with check_tool_installed for Ansible and Puppet.
PromptProvisionMethod ==
    /\ pc = "prompt_provision_method"
    /\ \E line \in InputLines, present \in BOOLEAN :
         LET choice == Strip(line)
             method == MethodOf(choice)
             asked == <<Console("Select provisioning method:"),
                        Console("1: Shell (install packages via package manager)"),
                        Console("2: Ansible"),
                        Console("3: Puppet"),
                        Ev("input", "method", method)>>
         IN  /\ stdin' = [prompt |-> "method", line |-> line]
             /\ provision_method' = method
             /\ IF method = "shell"
                THEN /\ events' = events \o asked
                     /\ pc' = "method_selected"
                     /\ tool' = tool
                ELSE /\ events' = events \o asked \o CheckTool(method, present)
                     /\ pc' = IF present THEN "method_selected" ELSE "install_provisioning_tool"
                     /\ tool' = method
    /\ output' = <<>>
    /\ UNCHANGED <<entry, os_choice, package_manager, packages, attempt, child, child_todo,
                   child_rc, pipe, pbar_n, ipt_result, artifact, template, exit_code>>

\* install_provisioning_tool, lines 114-131: the lookup of the install command. Without a
\* command the function returns False to prompt_provision_method, which drops the result.
LookupInstallCommand ==
    /\ pc = "install_provisioning_tool"
    /\ stdin' = NoInput
    /\ IF InstallCommand(package_manager, tool) = <<>>
       THEN /\ events' = events \o <<LogError("No installation command defined")>>
            /\ ipt_result' = "False"
            /\ pc' = "method_selected"
       ELSE /\ pc' = "confirm_install"
            /\ UNCHANGED <<events, ipt_result>>
    /\ UNCHANGED <<entry, os_choice, package_manager, output, packages, provision_method, tool,
                   attempt, child, child_todo, child_rc, pipe, pbar_n, artifact, template,
                   exit_code>>

\* install_provisioning_tool, lines 133-139: the confirmation.
ConfirmInstall ==
    /\ pc = "confirm_install"
    /\ \E line \in InputLines :
         LET choice == Lower(Strip(line))
         IN  /\ stdin' = [prompt |-> "install", line |-> line]
             /\ IF Declined(choice)
                THEN /\ Exit("1", <<Ev("input", "install", YesNo(choice)),
                                    Console("tool will not be installed. Exiting.")>>)
                     /\ attempt' = attempt
                ELSE /\ events' = events \o <<Ev("input", "install", YesNo(choice))>>
                     /\ attempt' = 0
                     /\ pc' = "install_loop"
                     /\ exit_code' = exit_code
    /\ UNCHANGED <<entry, os_choice, package_manager, output, packages, provision_method, tool,
                   child, child_todo, child_rc, pipe, pbar_n, ipt_result, artifact, template>>

\* install_provisioning_tool, lines 140-144, into run_command_with_spinner, lines 36-39:
\* one more attempt. Popen starts the install command, which will write some amount of
\* output, or raises OSError (no sudo on PATH), which the loop's except clause catches.
AttemptInstall ==
    /\ pc = "install_loop"
    /\ MayAttempt(attempt)
    /\ attempt' = attempt + 1
    /\ stdin' = NoInput
    /\ LET cmd == InstallCommand(package_manager, tool)
           said == <<LogInfo("Attempt to install tool"), LogInfo("Installing tool")>>
       IN  \E started \in BOOLEAN, todo \in 0..MaxOutputUnits :
             IF started
             THEN /\ events' = events \o said \o <<Ev("popen", cmd[1], "started")>>
                  /\ child' = "running"
                  /\ child_todo' = todo
                  /\ pc' = "spinner_poll"
             ELSE /\ events' = events \o said \o <<Ev("popen", cmd[1], "oserror")>>
                  /\ child' = "none"
                  /\ child_todo' = 0
                  /\ pc' = "install_except"
    /\ pipe' = 0
    /\ pbar_n' = 0
    /\ UNCHANGED <<entry, os_choice, package_manager, output, packages, provision_method, tool,
                   child_rc, ipt_result, artifact, template, exit_code>>

\* install_provisioning_tool, lines 140 and 156-157: the loop is over without success.
GiveUp ==
    /\ pc = "install_loop"
    /\ ~MayAttempt(attempt)
    /\ Exit("1", <<Console("Failed to install tool. Exiting.")>>)
    /\ stdin' = NoInput
    /\ UNCHANGED <<entry, os_choice, package_manager, output, packages, provision_method, tool,
                   attempt, child, child_todo, child_rc, pipe, pbar_n, ipt_result, artifact,
                   template>>

\* The install command writes one unit of output; it waits while the pipe is full.
ChildWrite ==
    /\ child = "running"
    /\ child_todo > 0
    /\ pipe < PipeCapacity
    /\ child_todo' = child_todo - 1
    /\ pipe' = pipe + 1
    /\ UNCHANGED <<pc, entry, stdin, os_choice, package_manager, output, packages,
                   provision_method, tool, attempt, child, child_rc, pbar_n, ipt_result,
                   artifact, template, events, exit_code>>

\* The install command has written all its output and exits, with status 0 or not.
ChildExit ==
    /\ child = "running"
    /\ child_todo = 0
    /\ child' = "exited"
    /\ \E rc \in {"0", "1"} : child_rc' = rc
    /\ UNCHANGED <<pc, entry, stdin, os_choice, package_manager, output, packages,
                   provision_method, tool, attempt, child_todo, pipe, pbar_n, ipt_result,
                   artifact, template, events, exit_code>>

\* run_command_with_spinner, lines 40-42: the child has not exited; the bar moves on and
\* nothing is read from the pipe. pbar.n is counted modulo MaxTicks + 1, which keeps the
\* states finite and every pass of the loop a step.
SpinnerPoll ==
    /\ pc = "spinner_poll"
    /\ child = "running"
    /\ pbar_n' = (pbar_n + 1) % (MaxTicks + 1)
    /\ stdin' = NoInput
    /\ UNCHANGED <<pc, entry, os_choice, package_manager, output, packages, provision_method,
                   tool, attempt, child, child_todo, child_rc, pipe, ipt_result, artifact,
                   template, events, exit_code>>

\* run_command_with_spinner, lines 40 and 44-51, and install_provisioning_tool, lines
\* 145-147: the child has exited; communicate() empties the pipe; a non-zero status is
\* raised as an exception; after status 0 the tool is looked up on PATH.
SpinnerDone ==
    /\ pc = "spinner_poll"
    /\ child = "exited"
    /\ pbar_n' = 100
    /\ pipe' = 0
    /\ child' = "none"
    /\ stdin' = NoInput
    /\ LET waited == <<Ev("returncode", tool, child_rc)>>
       IN  IF CommandFailed(child_rc)
           THEN /\ events' = events \o waited \o <<LogError("Error: stderr")>>
                /\ pc' = "install_except"
                /\ ipt_result' = ipt_result
           ELSE \E present \in BOOLEAN :
                  IF present
                  THEN /\ events' = events \o waited \o <<LogInfo("Installing tool completed.")>>
                                      \o CheckTool(tool, TRUE)
                                      \o <<LogInfo("tool installed successfully.")>>
                       /\ ipt_result' = "True"
                       /\ pc' = "method_selected"
                  ELSE /\ events' = events \o waited \o <<LogInfo("Installing tool completed.")>>
                                      \o CheckTool(tool, FALSE)
                       /\ ipt_result' = ipt_result
                       /\ pc' = "install_loop"
    /\ UNCHANGED <<entry, os_choice, package_manager, output, packages, provision_method, tool,
                   attempt, child_todo, child_rc, artifact, template, exit_code>>

\* install_provisioning_tool, lines 148-150 and 154-155: the except clause.
InstallExcept ==
    /\ pc = "install_except"
    /\ stdin' = NoInput
    /\ IF OffersRetry(attempt)
       THEN /\ events' = events \o <<LogError("Attempt failed")>>
            /\ pc' = "retry_prompt"
       ELSE /\ events' = events \o <<LogError("Attempt failed"), Console("Max retries reached.")>>
            /\ pc' = "install_loop"
    /\ UNCHANGED <<entry, os_choice, package_manager, output, packages, provision_method, tool,
                   attempt, child, child_todo, child_rc, pipe, pbar_n, ipt_result, artifact,
                   template, exit_code>>

\* install_provisioning_tool, lines 151-153, and 156-157 after the break.
RetryPrompt ==
    /\ pc = "retry_prompt"
    /\ \E line \in InputLines :
         LET retry == Lower(Strip(line))
         IN  /\ stdin' = [prompt |-> "retry", line |-> line]
             /\ IF retry # y
                THEN Exit("1", <<Ev("input", "retry", YesNo(retry)),
                                 Console("Failed to install tool. Exiting.")>>)
                ELSE /\ events' = events \o <<Ev("input", "retry", YesNo(retry))>>
                     /\ pc' = "install_loop"
                     /\ exit_code' = exit_code
    /\ UNCHANGED <<entry, os_choice, package_manager, output, packages, provision_method, tool,
                   attempt, child, child_todo, child_rc, pipe, pbar_n, ipt_result, artifact,
                   template>>

\* prompt_provision_method returns the method (lines 170, 175, 177); in main, line 307 and
\* generate_install_script follow.
MethodSelected ==
    /\ pc = "method_selected"
    /\ stdin' = NoInput
    /\ IF entry # "main"
       THEN /\ pc' = "returned"
            /\ UNCHANGED <<artifact, events>>
       ELSE LET file == GeneratedFile(provision_method)
                chosen == <<LogInfo("Selected provisioning method")>>
            IN  /\ pc' = "generate_packer_template"
                /\ IF provision_method = "shell"
                   THEN /\ artifact' = [file |-> file, manager |-> package_manager,
                                        packages |-> packages]
                        /\ events' = events \o chosen \o
                             <<Ev("write", file, ""), Ev("chmod", file, "0o755"),
                               LogInfo("Generated script")>>
                   ELSE IF provision_method = "ansible"
                   THEN /\ artifact' = [file |-> file, manager |-> "apt", packages |-> packages]
                        /\ events' = events \o chosen \o
                             <<Ev("write", file, ""), LogInfo("Generated playbook")>>
                   ELSE IF provision_method = "puppet"
                   THEN /\ artifact' = [file |-> file, manager |-> "", packages |-> packages]
                        /\ events' = events \o chosen \o
                             <<Ev("write", file, ""), LogInfo("Generated manifest")>>
                   ELSE /\ artifact' = artifact
                        /\ events' = events \o chosen
    /\ UNCHANGED <<entry, os_choice, package_manager, output, packages, provision_method, tool,
                   attempt, child, child_todo, child_rc, pipe, pbar_n, ipt_result, template,
                   exit_code>>

\* generate_packer_template.
GeneratePackerTemplate ==
    /\ pc = "generate_packer_template"
    /\ template' = ProvisionerBlocks(provision_method)
    /\ events' = events \o <<Ev("write", "template.pkr.hcl", ""),
                             LogInfo("Generated Packer template in template.pkr.hcl.")>>
    /\ pc' = "summary"
    /\ stdin' = NoInput
    /\ UNCHANGED <<entry, os_choice, package_manager, output, packages, provision_method, tool,
                   attempt, child, child_todo, child_rc, pipe, pbar_n, ipt_result, artifact,
                   exit_code>>

\* main, lines 315-328, and the end of the process.
Summary ==
    /\ pc = "summary"
    /\ Exit("0", <<Console("Generated files:"),
                   Console("Packer template: template.pkr.hcl"),
                   Console(GeneratedFile(provision_method)),
                   Console("You can now run:"),
                   LogInfo("Generation complete. Exiting.")>>)
    /\ stdin' = NoInput
    /\ UNCHANGED <<entry, os_choice, package_manager, output, packages, provision_method, tool,
                   attempt, child, child_todo, child_rc, pipe, pbar_n, ipt_result, artifact,
                   template>>

\* The steps of the program itself, and those of the install command it started.
ParentStep ==
    \/ Start
    \/ PromptOperatingSystem
    \/ SelectManager
    \/ GetInstalledPackages
    \/ PromptProvisionMethod
    \/ LookupInstallCommand
    \/ ConfirmInstall
    \/ AttemptInstall
    \/ GiveUp
    \/ SpinnerPoll
    \/ SpinnerDone
    \/ InstallExcept
    \/ RetryPrompt
    \/ MethodSelected
    \/ GeneratePackerTemplate
    \/ Summary

ChildStep == ChildWrite \/ ChildExit

Next == ParentStep \/ ChildStep

\* A run of the program.
Spec == Init /\ [][Next]_vars

\* A run of main, or of one of its functions called with an identity of the caller's choice.
SpecCall == InitCall /\ [][Next]_vars

\* A run in which the program and the install command each keep taking the steps they can:
\* the interpreter does not stop between statements, and the operating system keeps
\* scheduling a child that is able to run.
SpecFair == Init /\ [][Next]_vars /\ WF_vars(ParentStep) /\ WF_vars(ChildStep)

----------------------------------------------------------------------------
(* Vocabulary of the properties.                                           *)

\* Calls of Popen for the install command (install attempts), and those that started it.
Attempts == Indices("popen")
Spawns == {k \in Attempts : events[k].val = "started"}

\* The files written, in the order written.
Writes ==
    LET w == SelectSeq(events, LAMBDA e : e.kind = "write")
    IN  [k \in 1..Len(w) |-> w[k].what]

\* The last thing that reached the program from outside: a line typed, a process ending or
\* failing to start, a PATH lookup. 0 when nothing has.
Outside == {"input", "run", "popen", "returncode", "which"}
LastOutside ==
    LET S == {k \in 1..Len(events) : events[k].kind \in Outside}
    IN  IF S = {} THEN 0 ELSE Max(S)

\* The last install attempt failed: no process, a non-zero status, or the tool still absent.
LastAttemptFailed ==
    /\ Attempts # {}
    /\ LET last == Max(Attempts)
       IN  \/ events[last].val = "oserror"
           \/ \E k \in (last + 1)..Len(events) :
                \/ events[k] = Ev("returncode", tool, "1")
                \/ events[k] = Ev("which", ToolCommand(tool), "False")

----------------------------------------------------------------------------
(* C1: every install attempt after the first is preceded, since the        *)
(* previous attempt, by a retry prompt that the user answered with y.      *)
C1_RetryOnlyAfterConfirmation ==
    \A j \in Attempts :
      \A i \in Attempts :
        (i < j /\ ~\E m \in Attempts : i < m /\ m < j)
          => \E k \in (i + 1)..(j - 1) : events[k] = Ev("input", "retry", "y")

(* C2: the install command is started at most 3 times; after a third       *)
(* failed attempt no retry prompt is shown, nothing is generated and the   *)
(* next steps of the program end the process with status 1.                *)
C2_Bounded ==
    /\ Cardinality(Attempts) <= 3
    /\ \A k \in Indices("input") :
         events[k].what = "retry" => Cardinality({i \in Attempts : i < k}) < 3
    /\ (Cardinality(Attempts) = 3 /\ LastAttemptFailed)
         => /\ pc \in {"install_except", "install_loop", "exited"}
            /\ exit_code \in {"running", "1"}
            /\ Writes = <<>>

C2_ThenExits ==
    (Cardinality(Attempts) = 3 /\ LastAttemptFailed)
      => /\ pc = "install_except" => pc' = "install_loop"
         /\ pc = "install_loop" => (pc' = "exited" /\ exit_code' = "1")

C2_AtMostThreeAttempts == [](C2_Bounded) /\ [][C2_ThenExits]_vars

C2_Witness ==
    /\ Cardinality(Spawns) = 3
    /\ LastAttemptFailed
    /\ exit_code = "1"

(* C3: install_provisioning_tool returns True only when the last attempt's *)
(* command was started and exited 0 and the PATH lookup made after it, the *)
(* last one of the run, found the tool.                                    *)
C3_SuccessOnlyWhenPresent ==
    ipt_result = "True"
      => /\ Attempts # {}
         /\ LET last == Max(Attempts)
            IN  /\ events[last].val = "started"
                /\ \E j \in (last + 1)..Len(events) :
                     /\ events[j] = Ev("returncode", tool, "0")
                     /\ \E k \in (j + 1)..Len(events) :
                          events[k] = Ev("which", ToolCommand(tool), "True")
         /\ events[Max(Indices("which"))].val = "True"
         /\ ~LastAttemptFailed

C3_Witness ==
    /\ ipt_result = "True"
    /\ Cardinality(Attempts) = 2
    /\ exit_code = "0"

(* C4, as stated: after any answer to the install confirmation other than  *)
(* the string y, the install command is not started and the process has    *)
(* ended with status 1 without writing a file.                             *)
C4_AsStated ==
    (stdin.prompt = "install" /\ stdin.line # y)
      => /\ pc = "exited"
         /\ exit_code = "1"
         /\ Attempts = {}
         /\ Writes = <<>>

(* C4, amended: after any answer to the install confirmation that is not y *)
(* once stripped of surrounding whitespace and lower-cased, the process    *)
(* has ended with status 1, the install command was never started and no   *)
(* file was written.                                                       *)
C4_DeclineStops ==
    (\/ stdin.prompt = "install" /\ Lower(Strip(stdin.line)) # y
     \/ \E k \in 1..Len(events) : events[k] = Ev("input", "install", "other"))
      => /\ pc = "exited"
         /\ exit_code = "1"
         /\ Attempts = {}
         /\ Writes = <<>>

C4_Witness ==
    /\ stdin = [prompt |-> "install", line |-> <<"n">>]
    /\ entry = "main"
    /\ exit_code = "1"

(* C5: once no install command was found for the pair, the process ends    *)
(* with status 1: prompt_provision_method does not return the method and   *)
(* nothing is generated.                                                   *)
C5_MissingCommandIsFatal ==
    ipt_result = "False"
      => /\ pc \notin {"returned", "generate_packer_template", "summary"}
         /\ exit_code # "0"

(* C6: when the process has ended with status 1 on one of the paths the    *)
(* program handles (not by an uncaught exception), a log record was        *)
(* written after the event that caused it.                                 *)
C6_FailureIsLogged ==
    (exit_code = "1" /\ \A k \in 1..Len(events) : events[k].what # "stderr")
      => \E k \in (LastOutside + 1)..Len(events) : events[k].kind = "log"

(* C7: when main ends with status 0, template.pkr.hcl holds exactly one    *)
(* provisioner block, which names the file generate_install_script wrote   *)
(* for the method; that file and then the template are the only writes.    *)
C7_TemplateMatchesArtifact ==
    exit_code = "0"
      => /\ provision_method \in {"shell", "ansible", "puppet"}
         /\ artifact.file =
              (IF provision_method = "shell" THEN "install_packages.sh"
               ELSE IF provision_method = "ansible" THEN "playbook.yml"
               ELSE "manifest.pp")
         /\ Len(template) = 1
         /\ template[1].ref = artifact.file
         /\ Writes = <<artifact.file, "template.pkr.hcl">>

C7_Witness ==
    /\ exit_code = "0"
    /\ provision_method = "puppet"
    /\ template[1].type = "shell"

\* The part of a field before its last dot; the whole field when it has no dot.
BeforeLastDot(field) ==
    LET dots == {i \in 1..Len(field) : field[i] = "."}
    IN  IF dots = {} THEN field ELSE SubSeq(field, 1, Max(dots) - 1)

(* C8: for yum, get_installed_packages returns, for each line after the    *)
(* header that has a field, in order, its first field cut before its last  *)
(* dot.                                                                    *)
C8_YumNameCutAtLastDot ==
    (pc = "returned" /\ entry = "get_installed_packages" /\ package_manager = "yum")
      => LET lines == SelectSeq(Tail0(SplitLines(output), 2), LAMBDA l : SplitFields(l) # <<>>)
         IN  packages = [k \in 1..Len(lines) |-> BeforeLastDot(SplitFields(lines[k])[1])]

\* What holds of the identities and methods whatever is typed.
C9_Ranges ==
    /\ package_manager \in {""} \cup SupportedManagers
    /\ provision_method \in {"", "shell", "ansible", "puppet"}
    /\ pc \in {"method_selected", "generate_packer_template", "summary"}
         => provision_method # ""
    /\ \A k \in 1..Len(events) : events[k] # LogError("Unsupported package manager.")

(* C9, as stated: every line other than 2 and 3 selects apt at the OS      *)
(* prompt, and selects shell without a PATH lookup or an installation at   *)
(* the method prompt; the identity and the method stay in their ranges.    *)
C9_AsStated ==
    /\ (stdin.prompt = "os" /\ stdin.line \notin {<<"2">>, <<"3">>})
         => get_package_manager(os_choice) = "apt"
    /\ (stdin.prompt = "method" /\ stdin.line \notin {<<"2">>, <<"3">>})
         => /\ provision_method = "shell"
            /\ pc = "method_selected"
            /\ Indices("which") = {}
            /\ Attempts = {}
    /\ C9_Ranges

(* C9, amended: every line that, stripped of surrounding whitespace, is    *)
(* neither 2 nor 3 selects apt at the OS prompt, and selects shell without *)
(* a PATH lookup or an installation at the method prompt; the identity and *)
(* the method stay in their ranges.                                        *)
C9_DefaultChoice ==
    /\ (stdin.prompt = "os" /\ Strip(stdin.line) \notin {<<"2">>, <<"3">>})
         => get_package_manager(os_choice) = "apt"
    /\ (stdin.prompt = "method" /\ Strip(stdin.line) \notin {<<"2">>, <<"3">>})
         => /\ provision_method = "shell"
            /\ pc = "method_selected"
            /\ Indices("which") = {}
            /\ Attempts = {}
    /\ C9_Ranges

C9_Witness ==
    /\ stdin = [prompt |-> "method", line |-> <<"y">>]
    /\ os_choice = "ubuntu"
    /\ package_manager = "apt"
    /\ provision_method = "shell"

(* C10: every started install attempt completes: run_command_with_spinner  *)
(* leaves its poll loop.                                                   *)
C10_SpinnerReturns == (pc = "spinner_poll") ~> (pc # "spinner_poll")

====
